---- MODULE Spec2Model ----
(***************************************************************************)
(* A model of the TaHoma climate entity                                    *)
(* (custom_components/tahoma/climate.py, class TahomaClimate).             *)
(*                                                                         *)
(* One entity is modelled, of either device family (widget).  Its state is *)
(* the entity's cached fields, the device's active_states as last fetched  *)
(* by get_states, and the host's state of the associated temperature       *)
(* sensor.  Each handler of the entity is one action.  Four history        *)
(* variables record what the last handler was (op), the vendor commands it *)
(* issued through _apply_action in order (cmds), the evaluation of         *)
(* _control_heating it contained, if any (ctl), and the exception that     *)
(* escaped it (raised).                                                    *)
(*                                                                         *)
(* Temperatures are floats in the code.  They are modelled in tenths of a  *)
(* degree (Scale), the resolution of the tolerances (0.3); the code's      *)
(* comparisons are exact on the values compared.                           *)
(***************************************************************************)
EXTENDS Integers, Sequences, FiniteSets, TLC

VARIABLES
    widget,               \* tahoma_device.widget
    temp_sensor_entity_id,\* self._temp_sensor_entity_id
    active_states,        \* tahoma_device.active_states
    sensor,               \* hass.states.get(self._temp_sensor_entity_id)
    hvac_mode,            \* self._hvac_mode
    preset_mode,          \* self._preset_mode
    target_temp,          \* self._target_temp
    stored_target_temp,   \* self._stored_target_temp
    current_temperature,  \* self._current_temperature
    current_hvac_modes,   \* self._current_hvac_modes (hvac_action)
    op,                   \* history: the last handler and its argument
    cmds,                 \* history: the commands the last handler issued
    ctl,                  \* history: the control step of the last handler
    raised,               \* history: the exception the last handler raised
    hist,                 \* history: what the user asked for, what the
                          \* device was last commanded
    entry,                \* the config entry: hass.data[DOMAIN][entry_id],
                          \* what the host has registered for it, the
                          \* position of its handlers
    exe                   \* the handler in progress: its position in
                          \* _apply_action, the commands it has yet to issue,
                          \* the vendor's current executions

vars == <<widget, temp_sensor_entity_id, active_states, sensor, hvac_mode,
          preset_mode, target_temp, stored_target_temp, current_temperature,
          current_hvac_modes, op, cmds, ctl, raised, hist, entry, exe>>

\* The climate entity and its history
entity == <<widget, temp_sensor_entity_id, active_states, sensor, hvac_mode,
            preset_mode, target_temp, stored_target_temp, current_temperature,
            current_hvac_modes, op, cmds, ctl, raised, hist>>

----------------------------------------------------------------------------
(* Representation and bounds *)

None == -1
Scale == 10
Spread == 1

Deg(n) == n * Scale

----------------------------------------------------------------------------
(* Constants of climate.py *)

W_ST == "SomfyThermostat"
W_AEH == "AtlanticElectricalHeater"
SUPPORTED_CLIMATE_DEVICES == {W_ST, W_AEH}

HVAC_MODE_AUTO == "auto"
HVAC_MODE_HEAT == "heat"
HVAC_MODE_OFF == "off"
CURRENT_HVAC_HEAT == "heating"
CURRENT_HVAC_IDLE == "idle"
CURRENT_HVAC_OFF == "off"
PRESET_AWAY == "away"
PRESET_BOOST == "boost"
PRESET_COMFORT == "comfort"
PRESET_ECO == "eco"
PRESET_HOME == "home"
PRESET_NONE == "none"
PRESET_SLEEP == "sleep"
STATE_OFF == "off"
STATE_ON == "on"
STATE_UNKNOWN == "unknown"

PRESET_FREEZE == "freeze"
PRESET_FROST_PROTECTION == "frostprotection"
PRESET_OFF == "off"

STATE_DEROGATION_FURTHER_NOTICE == "further_notice"
STATE_DEROGATION_NEXT_MODE == "next_mode"
STATE_DEROGATION_DATE == "date"
STATE_PRESET_AT_HOME == "atHomeMode"
STATE_PRESET_AWAY == "awayMode"
STATE_PRESET_FREEZE == "freezeMode"
STATE_PRESET_MANUAL == "manualMode"
STATE_PRESET_SLEEPING_MODE == "sleepingMode"

COMMAND_EXIT_DEROGATION == "exitDerogation"
COMMAND_SET_DEROGATION == "setDerogation"
COMMAND_REFRESH_STATE == "refreshState"
COMMAND_OFF == "off"
COMMAND_SET_HEATING_LEVEL == "setHeatingLevel"
COMMAND_SET_MODE_TEMPERATURE == "setModeTemperature"

\* Mutant: next_mode mapped to auto
MAP_HVAC_MODE_next_mode_auto ==
    (STATE_DEROGATION_DATE :> HVAC_MODE_AUTO)
    @@ (STATE_DEROGATION_NEXT_MODE :> HVAC_MODE_AUTO)
    @@ (STATE_DEROGATION_FURTHER_NOTICE :> HVAC_MODE_HEAT)
    @@ (STATE_ON :> HVAC_MODE_HEAT)
    @@ (STATE_OFF :> HVAC_MODE_OFF)

MAP_HVAC_MODE ==
    (STATE_DEROGATION_DATE :> HVAC_MODE_AUTO)
    @@ (STATE_DEROGATION_NEXT_MODE :> HVAC_MODE_HEAT)
    @@ (STATE_DEROGATION_FURTHER_NOTICE :> HVAC_MODE_HEAT)
    @@ (STATE_ON :> HVAC_MODE_HEAT)
    @@ (STATE_OFF :> HVAC_MODE_OFF)

\* Mutant: the heater's frost-protection level left untranslated
MAP_PRESET_untranslated ==
    (STATE_PRESET_AT_HOME :> PRESET_HOME)
    @@ (STATE_PRESET_AWAY :> PRESET_AWAY)
    @@ (STATE_PRESET_FREEZE :> PRESET_FREEZE)
    @@ (STATE_PRESET_MANUAL :> PRESET_NONE)
    @@ (STATE_PRESET_SLEEPING_MODE :> PRESET_SLEEP)
    @@ (PRESET_OFF :> PRESET_NONE)
    @@ (PRESET_FROST_PROTECTION :> PRESET_FROST_PROTECTION)
    @@ (PRESET_ECO :> PRESET_ECO)
    @@ (PRESET_COMFORT :> PRESET_COMFORT)

MAP_PRESET ==
    (STATE_PRESET_AT_HOME :> PRESET_HOME)
    @@ (STATE_PRESET_AWAY :> PRESET_AWAY)
    @@ (STATE_PRESET_FREEZE :> PRESET_FREEZE)
    @@ (STATE_PRESET_MANUAL :> PRESET_NONE)
    @@ (STATE_PRESET_SLEEPING_MODE :> PRESET_SLEEP)
    @@ (PRESET_OFF :> PRESET_NONE)
    @@ (PRESET_FROST_PROTECTION :> PRESET_FREEZE)
    @@ (PRESET_ECO :> PRESET_ECO)
    @@ (PRESET_COMFORT :> PRESET_COMFORT)

ST_MAP_PRESET_REVERSE ==
    (PRESET_HOME :> STATE_PRESET_AT_HOME)
    @@ (PRESET_AWAY :> STATE_PRESET_AWAY)
    @@ (PRESET_FREEZE :> STATE_PRESET_FREEZE)
    @@ (PRESET_NONE :> STATE_PRESET_MANUAL)
    @@ (PRESET_SLEEP :> STATE_PRESET_SLEEPING_MODE)

AEH_MAP_PRESET_REVERSE ==
    (PRESET_NONE :> PRESET_OFF)
    @@ (PRESET_FREEZE :> PRESET_FROST_PROTECTION)
    @@ (PRESET_ECO :> PRESET_ECO)
    @@ (PRESET_COMFORT :> PRESET_COMFORT)

cold_tolerance == 3
hot_tolerance == 3

\* self._hvac_modes, by family
hvac_modes(w) ==
    IF w = W_ST THEN {HVAC_MODE_AUTO, HVAC_MODE_HEAT}
    ELSE {HVAC_MODE_HEAT, HVAC_MODE_OFF}

\* self._preset_modes, by family
preset_modes(w) ==
    IF w = W_ST
    THEN {PRESET_NONE, PRESET_FREEZE, PRESET_SLEEP, PRESET_AWAY, PRESET_HOME}
    ELSE {PRESET_NONE, PRESET_FREEZE, PRESET_ECO, PRESET_COMFORT}

----------------------------------------------------------------------------
(* Values exchanged with the vendor client and the host *)

\* An argument of a vendor command: a string or a number
S(s) == [str |-> s, num |-> None]
N(n) == [str |-> "", num |-> n]

\* What apply_action(cmd_name, *args) sends
Cmd(cmd_name, args) == [name |-> cmd_name, args |-> args]

\* A homeassistant.core.State of the sensor: its .state string is "unknown",
\* the decimal text of a number (num), or some other text
NoState == [state |-> "", num |-> None]
UnknownState == [state |-> STATE_UNKNOWN, num |-> None]
TextState == [state |-> "text", num |-> None]
NumState(n) == [state |-> "number", num |-> n]

\* float(state.state): the number a decimal text denotes, ValueError otherwise
float(state) ==
    IF state.state = "number"
    THEN [ok |-> TRUE, val |-> state.num]
    ELSE [ok |-> FALSE, val |-> None]

\* The readings the sensor reports: at and just inside the tolerance band
\* around 19 degrees, the heater's default target
SensorReadings ==
    {Deg(19) + s * d : s \in {-1, 1}, d \in {cold_tolerance - 1, cold_tolerance}}

SensorStates ==
    {UnknownState, TextState} \cup {NumState(n) : n \in SensorReadings}

\* The temperatures the thermostat reports: its scheduled target and the
\* target of its override
CoreTemps == {Deg(18)}
DerogatedTemps == {Deg(21)}

\* The values each vendor state of a family takes
ST_DEROGATION_TYPES ==
    {STATE_DEROGATION_DATE, STATE_DEROGATION_NEXT_MODE,
     STATE_DEROGATION_FURTHER_NOTICE}
ST_HEATING_MODES ==
    {STATE_PRESET_AT_HOME, STATE_PRESET_AWAY, STATE_PRESET_FREEZE,
     STATE_PRESET_MANUAL, STATE_PRESET_SLEEPING_MODE}
AEH_ON_OFF == {STATE_ON, STATE_OFF}
AEH_HEATING_LEVELS ==
    {PRESET_OFF, PRESET_FROST_PROTECTION, PRESET_ECO, PRESET_COMFORT}

\* The active_states the vendor reports, restricted to the values the lookup
\* tables hold for the family
VendorStates(w) ==
    IF w = W_ST
    THEN [ST_DEROGATION_TYPE_STATE : ST_DEROGATION_TYPES,
          ST_HEATING_MODE_STATE : ST_HEATING_MODES,
          ST_DEROGATION_HEATING_MODE_STATE : ST_HEATING_MODES,
          CORE_TARGET_TEMPERATURE_STATE : CoreTemps,
          CORE_DEROGATED_TARGET_TEMPERATURE_STATE : DerogatedTemps]
    ELSE [CORE_ON_OFF_STATE : AEH_ON_OFF,
          IO_TARGET_HEATING_LEVEL_STATE : AEH_HEATING_LEVELS]

\* The arguments the host passes to the setters
HvacModeArgs == {HVAC_MODE_AUTO, HVAC_MODE_HEAT, HVAC_MODE_OFF}
PresetArgs ==
    {PRESET_NONE, PRESET_FREEZE, PRESET_SLEEP, PRESET_AWAY, PRESET_HOME,
     PRESET_ECO, PRESET_COMFORT, PRESET_BOOST}
TemperatureArgs ==
    {None}
    \cup {Deg(15 - d) : d \in 0..Spread}
    \cup {Deg(26 + d) : d \in 0..Spread}

----------------------------------------------------------------------------
(* Construction: TahomaClimate.__init__ *)

\* The mode a vendor on/off or derogation-type state maps to
HvacModeOf(states, w) ==
    IF w = W_ST
    THEN MAP_HVAC_MODE[states.ST_DEROGATION_TYPE_STATE]
    ELSE MAP_HVAC_MODE[states.CORE_ON_OFF_STATE]

\* Mutant: the field is chosen by the mode cached before the poll
PresetOf_stale(states, w, mode) ==
    IF w = W_ST
    THEN MAP_PRESET[IF hvac_mode = HVAC_MODE_AUTO
                    THEN states.ST_HEATING_MODE_STATE
                    ELSE states.ST_DEROGATION_HEATING_MODE_STATE]
    ELSE MAP_PRESET[states.IO_TARGET_HEATING_LEVEL_STATE]

\* The preset read from the vendor states, given the mode just derived
PresetOf(states, w, mode) ==
    IF w = W_ST
    THEN MAP_PRESET[IF mode = HVAC_MODE_AUTO
                    THEN states.ST_HEATING_MODE_STATE
                    ELSE states.ST_DEROGATION_HEATING_MODE_STATE]
    ELSE MAP_PRESET[states.IO_TARGET_HEATING_LEVEL_STATE]

\* The thermostat's target temperature read from the vendor states
TargetOf(states, mode) ==
    IF mode = HVAC_MODE_AUTO
    THEN states.CORE_TARGET_TEMPERATURE_STATE
    ELSE states.CORE_DEROGATED_TARGET_TEMPERATURE_STATE

\* sensor_id as the entity is constructed ("" for None, the default).  The
\* thermostat is modelled without an associated sensor, the heater with or
\* without one.
SensorIds(w) ==
    IF w = W_ST THEN {""} ELSE {"", "sensor.temperature"}

NoOp(name) == [name |-> name, str |-> "", num |-> None]
NoCtl == [ran |-> FALSE, current |-> None, target |-> None,
          preset |-> "", cmds |-> << >>]

\* The config entry before async_setup_entry has been called for it
NotSetUp ==
    [state |-> "not_loaded",
     domain |-> FALSE,
     data |-> FALSE,
     task_refresh_state |-> 0,
     timers |-> {},
     made |-> 0,
     update_listeners |-> FALSE,
     forwarded |-> {},
     services |-> {},
     options |-> [update_interval |-> 0, refresh_state_interval |-> 0],
     pending |-> 0,
     op |-> "",
     exception |-> "",
     result |-> ""]

\* No handler in progress, nothing executing
Idle ==
    [pc |-> "idle",
     todo |-> << >>,
     issued |-> 0,
     exec_id |-> 0,
     current_executions |-> {}]

\* Nothing asked for yet, nothing commanded
NoHist ==
    [user_preset |-> "",
     off_requested |-> FALSE,
     level |-> "",
     derogation |-> "",
     overriding |-> FALSE,
     first_target |-> None]

\* The entity as __init__ leaves it, given the device and the sensor id
Constructed ==
    /\ sensor \in IF temp_sensor_entity_id = ""
                  THEN {NoState}
                  ELSE SensorStates \cup {NoState}
    /\ current_temperature = 0
    /\ current_hvac_modes = CURRENT_HVAC_IDLE
    /\ hvac_mode = HvacModeOf(active_states, widget)
    /\ preset_mode = PresetOf(active_states, widget, hvac_mode)
    /\ target_temp = IF widget = W_ST
                     THEN TargetOf(active_states, hvac_mode)
                     ELSE Deg(19)
    /\ stored_target_temp = target_temp
    /\ op = NoOp("__init__")
    /\ cmds = << >>
    /\ ctl = NoCtl
    /\ raised = ""

\* No history kept, the config entry and the vendor's executions left aside
Untracked ==
    /\ hist = NoHist
    /\ entry = NotSetUp
    /\ exe = Idle

Init ==
    /\ widget \in SUPPORTED_CLIMATE_DEVICES
    /\ temp_sensor_entity_id \in SensorIds(widget)
    /\ active_states \in VendorStates(widget)
    /\ Constructed
    /\ Untracked

----------------------------------------------------------------------------
(* The heater's control step: _control_heating, turn_off, turn_on *)

SetHeatingLevel(preset) ==
    Cmd(COMMAND_SET_HEATING_LEVEL, <<S(AEH_MAP_PRESET_REVERSE[preset])>>)

\* turn_off: the commands it issues (the cached preset is left as it is)
turn_off(preset) ==
    IF widget = W_AEH /\ preset # PRESET_NONE
    THEN <<SetHeatingLevel(PRESET_NONE)>>
    ELSE << >>

\* Mutant: eco as the default level
turn_on_preset_eco(preset) ==
    IF preset = PRESET_NONE THEN PRESET_ECO ELSE preset

\* The preset turn_on heats with
turn_on_preset(preset) ==
    IF preset = PRESET_NONE THEN PRESET_COMFORT ELSE preset

\* turn_on: the cached preset it leaves and the commands it issues
turn_on(preset) ==
    IF widget = W_AEH
    THEN [preset |-> turn_on_preset(preset),
          cmds |-> <<SetHeatingLevel(turn_on_preset(preset))>>]
    ELSE [preset |-> preset, cmds |-> << >>]

too_cold(target, current) == target - current >= cold_tolerance
\* Mutant: strict comparison
too_hot_strict(target, current) == current - target > hot_tolerance
too_hot(target, current) == current - target >= hot_tolerance

\* Mutant: the control step run without a known temperature
_control_heating_unguarded(preset, target, current) ==
    LET off == IF too_hot(target, current) THEN turn_off(preset) ELSE << >>
        on == IF too_cold(target, current)
              THEN turn_on(preset)
              ELSE [preset |-> preset, cmds |-> << >>]
    IN [preset |-> on.preset, cmds |-> off \o on.cmds]

\* _control_heating with the cached preset, target and current temperature
\* it reads: the cached preset it leaves and the commands it issues
_control_heating(preset, target, current) ==
    IF current = 0
    THEN [preset |-> preset, cmds |-> << >>]
    ELSE LET off == IF too_hot(target, current) THEN turn_off(preset) ELSE << >>
             on == IF too_cold(target, current)
                   THEN turn_on(preset)
                   ELSE [preset |-> preset, cmds |-> << >>]
         IN [preset |-> on.preset, cmds |-> off \o on.cmds]

\* The record kept of a control step
CtlOf(preset, target, current) ==
    [ran |-> TRUE, current |-> current, target |-> target, preset |-> preset,
     cmds |-> _control_heating(preset, target, current).cmds]

----------------------------------------------------------------------------
(* Reading: update_temp, update, _async_temp_sensor_changed *)

\* Mutant: a text that is no number read as 0
update_temp_zero(state) ==
    IF temp_sensor_entity_id = ""
    THEN [current |-> current_temperature, raised |-> ""]
    ELSE IF state = NoState
    THEN [current |-> current_temperature, raised |-> "AttributeError"]
    ELSE IF state.state = STATE_UNKNOWN
    THEN [current |-> 0, raised |-> ""]
    ELSE IF float(state).ok
    THEN [current |-> float(state).val, raised |-> ""]
    ELSE [current |-> 0, raised |-> ""]

\* update_temp(state): the current temperature it leaves, and the exception
\* that escapes it.  Only ValueError is caught; a state that is None has no
\* attribute .state.
update_temp(state) ==
    IF temp_sensor_entity_id = ""
    THEN [current |-> current_temperature, raised |-> ""]
    ELSE IF state = NoState
    THEN [current |-> current_temperature, raised |-> "AttributeError"]
    ELSE IF state.state = STATE_UNKNOWN
    THEN [current |-> 0, raised |-> ""]
    ELSE IF float(state).ok
    THEN [current |-> float(state).val, raised |-> ""]
    ELSE [current |-> current_temperature, raised |-> ""]

\* Mutant: no temperature known taken as a temperature of 0 degrees
HvacAction_zero_is_cold(mode, current, target) ==
    IF mode = HVAC_MODE_OFF THEN CURRENT_HVAC_OFF
    ELSE IF current > target THEN CURRENT_HVAC_IDLE
    ELSE CURRENT_HVAC_HEAT

\* hvac_action as update computes it
HvacAction(mode, current, target) ==
    IF mode = HVAC_MODE_OFF THEN CURRENT_HVAC_OFF
    ELSE IF current = 0 \/ current > target THEN CURRENT_HVAC_IDLE
    ELSE CURRENT_HVAC_HEAT

\* The available property: a temperature is known and the host has a state
\* for the sensor
available == current_temperature # 0 /\ sensor # NoState

\* update, get_states fetching states: update_temp(None) reads the sensor
\* from the host, then the cached fields are derived
update_reading(states) ==
        LET temp == update_temp(sensor)
            mode == HvacModeOf(states, widget)
            target == IF widget = W_ST THEN TargetOf(states, mode)
                      ELSE target_temp
        IN /\ active_states' = states
           /\ op' = NoOp("update")
           /\ cmds' = << >>
           /\ ctl' = NoCtl
           /\ raised' = temp.raised
           /\ UNCHANGED <<widget, temp_sensor_entity_id, sensor,
                          stored_target_temp>>
           /\ IF temp.raised # ""
              THEN UNCHANGED <<hvac_mode, preset_mode, target_temp,
                               current_temperature, current_hvac_modes>>
              ELSE /\ current_temperature' = temp.current
                   /\ hvac_mode' = mode
                   /\ target_temp' = target
                   /\ preset_mode' = PresetOf(states, widget, mode)
                   /\ current_hvac_modes' =
                          HvacAction(mode, temp.current, target)

update == \E states \in VendorStates(widget) : update_reading(states)

\* _async_temp_sensor_changed(entity_id, old_state, new_state): the host has
\* set the sensor's state to new_state (NoState: the state was removed)
_async_temp_sensor_changed(new_state) ==
    /\ temp_sensor_entity_id # ""
    /\ sensor' = new_state
    /\ op' = [name |-> "_async_temp_sensor_changed",
              str |-> new_state.state, num |-> new_state.num]
    /\ raised' = ""
    /\ UNCHANGED <<widget, temp_sensor_entity_id, active_states, hvac_mode,
                   target_temp, stored_target_temp, current_hvac_modes>>
    /\ IF new_state = NoState \/ sensor = new_state
       THEN /\ cmds' = << >>
            /\ ctl' = NoCtl
            /\ UNCHANGED <<preset_mode, current_temperature>>
       ELSE LET current == update_temp(new_state).current
                control == _control_heating(preset_mode, target_temp, current)
            IN /\ current_temperature' = current
               /\ IF widget = W_AEH
                  THEN /\ preset_mode' = control.preset
                       /\ cmds' = control.cmds
                       /\ ctl' = CtlOf(preset_mode, target_temp, current)
                  ELSE /\ cmds' = << >>
                       /\ ctl' = NoCtl
                       /\ UNCHANGED preset_mode

----------------------------------------------------------------------------
(* Writing: set_hvac_mode, set_temperature, set_preset_mode *)

SetDerogation(arg) ==
    Cmd(COMMAND_SET_DEROGATION, <<arg, S(STATE_DEROGATION_FURTHER_NOTICE)>>)
SetModeTemperature(temperature) ==
    Cmd(COMMAND_SET_MODE_TEMPERATURE,
        <<S(STATE_PRESET_MANUAL), N(temperature)>>)
RefreshState == Cmd(COMMAND_REFRESH_STATE, << >>)

\* What a setter leaves in the cached fields it may write, and the commands
\* it issues
Effect(preset, target, stored, commands) ==
    [preset |-> preset, target |-> target, stored |-> stored,
     cmds |-> commands]
\* Mutant: an early return that still asks the device to refresh
NoEffect_refreshed ==
    Effect(preset_mode, target_temp, stored_target_temp, <<RefreshState>>)
NoEffect == Effect(preset_mode, target_temp, stored_target_temp, << >>)

\* set_hvac_mode, thermostat branch, hvac_mode == HVAC_MODE_HEAT
st_set_hvac_mode_heat ==
    Effect(PRESET_NONE, stored_target_temp, stored_target_temp,
           <<SetDerogation(N(stored_target_temp))>>)

\* set_hvac_mode, thermostat branch
st_set_hvac_mode(mode) ==
    LET e == IF mode = HVAC_MODE_AUTO
             THEN Effect(preset_mode, target_temp, target_temp,
                         <<Cmd(COMMAND_EXIT_DEROGATION, << >>)>>)
             ELSE IF mode = HVAC_MODE_HEAT
             THEN st_set_hvac_mode_heat
             ELSE NoEffect
    IN [e EXCEPT !.cmds = @ \o <<RefreshState>>]

\* set_hvac_mode, heater branch, before its control step
aeh_set_hvac_mode(mode) ==
    Effect(preset_mode, target_temp, stored_target_temp,
           (IF mode = HVAC_MODE_OFF
            THEN <<Cmd(COMMAND_OFF, << >>)>> ELSE << >>)
           \o (IF mode = HVAC_MODE_HEAT
               THEN <<SetHeatingLevel(preset_mode)>> ELSE << >>))

\* The value of the cached hvac_mode when set_hvac_mode(mode) returns: no
\* branch of set_hvac_mode assigns self._hvac_mode
hvac_mode_after_set(mode) == hvac_mode

\* The setters share this frame: a setter runs e, then (heater only, when
\* control is set) the control step on what e left
Setter(e, control) ==
    LET c == _control_heating(e.preset, e.target, current_temperature)
    IN /\ target_temp' = e.target
       /\ stored_target_temp' = e.stored
       /\ raised' = ""
       /\ UNCHANGED <<widget, temp_sensor_entity_id, active_states, sensor,
                      current_temperature, current_hvac_modes>>
       /\ IF control
          THEN /\ preset_mode' = c.preset
               /\ cmds' = e.cmds \o c.cmds
               /\ ctl' = CtlOf(e.preset, e.target, current_temperature)
          ELSE /\ preset_mode' = e.preset
               /\ cmds' = e.cmds
               /\ ctl' = NoCtl

set_hvac_mode(mode) ==
    /\ op' = [name |-> "set_hvac_mode", str |-> mode, num |-> None]
    /\ IF mode = hvac_mode
       THEN /\ Setter(NoEffect, FALSE)
            /\ UNCHANGED hvac_mode
       ELSE /\ hvac_mode' = hvac_mode_after_set(mode)
            /\ IF widget = W_ST
               THEN Setter(st_set_hvac_mode(mode), FALSE)
               ELSE Setter(aeh_set_hvac_mode(mode), TRUE)

\* Mutant: no clamp
ClampedTemperature_none(temperature) == temperature

\* if temperature > 26: temperature = 26
ClampedTemperature(temperature) ==
    IF temperature > Deg(26) THEN Deg(26) ELSE temperature

\* Mutant: the threshold included
FrostProtection_le(temperature) ==
    IF temperature <= Deg(15)
    THEN <<SetDerogation(S(STATE_PRESET_FREEZE))>>
    ELSE << >>

\* if temperature < 15: the frost-protection override
FrostProtection(temperature) ==
    IF temperature < Deg(15)
    THEN <<SetDerogation(S(STATE_PRESET_FREEZE))>>
    ELSE << >>

\* Mutant: the state refresh requested before the mode temperature is set
st_set_temperature_early_refresh(temperature) ==
    Effect(preset_mode, ClampedTemperature(temperature), stored_target_temp,
           FrostProtection(temperature)
           \o <<SetDerogation(N(ClampedTemperature(temperature))),
                RefreshState,
                SetModeTemperature(ClampedTemperature(temperature))>>)

\* set_temperature, thermostat branch
st_set_temperature(temperature) ==
    Effect(preset_mode, ClampedTemperature(temperature), stored_target_temp,
           FrostProtection(temperature)
           \o <<SetDerogation(N(ClampedTemperature(temperature))),
                SetModeTemperature(ClampedTemperature(temperature)),
                RefreshState>>)

set_temperature(temperature) ==
    /\ op' = [name |-> "set_temperature", str |-> "", num |-> temperature]
    /\ UNCHANGED hvac_mode
    /\ IF temperature = None
       THEN Setter(NoEffect, FALSE)
       ELSE IF widget = W_ST
       THEN Setter(st_set_temperature(temperature), FALSE)
       ELSE Setter(Effect(preset_mode, temperature, stored_target_temp, << >>),
                   TRUE)

\* Mutant: checked against the heater's list whatever the family
PresetAvailable_heater(preset) == preset \in preset_modes(W_AEH)

\* if preset_mode not in self.preset_modes
PresetAvailable(preset) == preset \in preset_modes(widget)

\* Mutant: the target temperature is not restored
st_set_preset_mode_none_kept ==
    Effect(PRESET_NONE, target_temp, stored_target_temp,
           <<SetDerogation(N(target_temp)), SetModeTemperature(target_temp)>>)

\* set_preset_mode, thermostat branch, preset_mode == PRESET_NONE
st_set_preset_mode_none ==
    Effect(PRESET_NONE, stored_target_temp, stored_target_temp,
           <<SetDerogation(N(stored_target_temp)),
             SetModeTemperature(stored_target_temp)>>)

\* set_preset_mode, thermostat branch
st_set_preset_mode(preset) ==
    LET e == IF preset \in {PRESET_FREEZE, PRESET_SLEEP, PRESET_AWAY,
                            PRESET_HOME}
             THEN Effect(preset, target_temp, target_temp,
                         <<SetDerogation(S(ST_MAP_PRESET_REVERSE[preset]))>>)
             ELSE IF preset = PRESET_NONE
             THEN st_set_preset_mode_none
             ELSE Effect(preset, target_temp, stored_target_temp, << >>)
    IN [e EXCEPT !.cmds = @ \o <<RefreshState>>]

set_preset_mode(preset) ==
    /\ op' = [name |-> "set_preset_mode", str |-> preset, num |-> None]
    /\ UNCHANGED hvac_mode
    /\ IF ~PresetAvailable(preset) \/ preset_mode = preset
       THEN Setter(NoEffect, FALSE)
       ELSE IF widget = W_ST
       THEN Setter(st_set_preset_mode(preset), FALSE)
       ELSE Setter(Effect(preset, target_temp, stored_target_temp,
                          <<SetHeatingLevel(preset)>>),
                   TRUE)

----------------------------------------------------------------------------

Next ==
    \/ update /\ UNCHANGED <<hist, entry, exe>>
    \/ \E new_state \in SensorStates \cup {NoState} :
           _async_temp_sensor_changed(new_state) /\ UNCHANGED <<hist, entry, exe>>
    \/ \E mode \in HvacModeArgs :
           set_hvac_mode(mode) /\ UNCHANGED <<hist, entry, exe>>
    \/ \E temperature \in TemperatureArgs :
           set_temperature(temperature) /\ UNCHANGED <<hist, entry, exe>>
    \/ \E preset \in PresetArgs :
           set_preset_mode(preset) /\ UNCHANGED <<hist, entry, exe>>

Spec == Init /\ [][Next]_vars

----------------------------------------------------------------------------
(* Either family with an associated sensor.  The thermostat reports a       *)
(* scheduled manual mode or a frost-protection override.                    *)

SensorVendorStates(w) ==
    IF w = W_ST
    THEN {states \in VendorStates(W_ST) :
              /\ states.ST_DEROGATION_TYPE_STATE \in
                     {STATE_DEROGATION_DATE, STATE_DEROGATION_FURTHER_NOTICE}
              /\ states.ST_HEATING_MODE_STATE = STATE_PRESET_MANUAL
              /\ states.ST_DEROGATION_HEATING_MODE_STATE = STATE_PRESET_FREEZE}
    ELSE VendorStates(W_AEH)

InitSensor ==
    /\ widget \in SUPPORTED_CLIMATE_DEVICES
    /\ temp_sensor_entity_id = "sensor.temperature"
    /\ active_states \in SensorVendorStates(widget)
    /\ Constructed
    /\ Untracked

NextSensor ==
    \/ \E states \in SensorVendorStates(widget) :
           update_reading(states) /\ UNCHANGED <<hist, entry, exe>>
    \/ \E new_state \in SensorStates \cup {NoState} :
           _async_temp_sensor_changed(new_state) /\ UNCHANGED <<hist, entry, exe>>
    \/ \E mode \in HvacModeArgs :
           set_hvac_mode(mode) /\ UNCHANGED <<hist, entry, exe>>
    \/ \E temperature \in TemperatureArgs :
           set_temperature(temperature) /\ UNCHANGED <<hist, entry, exe>>
    \/ \E preset \in PresetArgs :
           set_preset_mode(preset) /\ UNCHANGED <<hist, entry, exe>>

SpecSensor == InitSensor /\ [][NextSensor]_vars

----------------------------------------------------------------------------
(* The device reports what the entity last commanded.  The heater reports  *)
(* the heating level it was last set to; the thermostat, between a         *)
(* setDerogation to a heating mode and the next command that changes its   *)
(* derogation, reports that mode as an override until further notice.      *)
(* hist also keeps what the user asked for.                                 *)

\* The string argument of the last command of that name; otherwise dflt
LastArg(commands, name, dflt) ==
    LET at == {i \in DOMAIN commands : commands[i].name = name}
    IN IF at = {} THEN dflt
       ELSE LET last == CHOOSE i \in at : \A j \in at : j <= i
            IN commands[last].args[1].str

\* The thermostat commands that end a derogation to a heating mode
EndsDerogation(commands) ==
    \E i \in DOMAIN commands :
        commands[i].name \in {COMMAND_EXIT_DEROGATION,
                              COMMAND_SET_MODE_TEMPERATURE}

\* Whether the call just made acted rather than returned at once
Acted(name) == op'.name = name /\ cmds' # << >>

\* hist after the step just taken, from the call and the commands it issued
HistNext ==
    [user_preset |->
         IF Acted("set_preset_mode") THEN op'.str ELSE hist.user_preset,
     off_requested |->
         IF Acted("set_hvac_mode") /\ op'.str = HVAC_MODE_OFF THEN TRUE
         ELSE IF Acted("set_hvac_mode") /\ op'.str = HVAC_MODE_HEAT THEN FALSE
         ELSE hist.off_requested,
     level |->
         IF widget = W_AEH
         THEN LastArg(cmds', COMMAND_SET_HEATING_LEVEL, hist.level)
         ELSE hist.level,
     derogation |->
         IF widget # W_ST THEN hist.derogation
         ELSE IF EndsDerogation(cmds') THEN ""
         ELSE LastArg(cmds', COMMAND_SET_DEROGATION, hist.derogation),
     overriding |->
         IF widget # W_ST THEN FALSE
         ELSE IF Acted("set_preset_mode")
         THEN /\ op'.str # PRESET_NONE
              /\ hist.overriding \/ preset_mode = PRESET_NONE
         ELSE IF op'.name \in {"set_hvac_mode", "set_temperature"}
         THEN FALSE
         ELSE hist.overriding,
     first_target |->
         IF widget # W_ST THEN None
         ELSE IF Acted("set_preset_mode") /\ op'.str # PRESET_NONE
         THEN IF hist.overriding THEN hist.first_target
              ELSE IF preset_mode = PRESET_NONE THEN target_temp
              ELSE None
         ELSE IF hist.overriding /\ op'.name \in {"update",
                                                    "set_preset_mode"}
         THEN hist.first_target
         ELSE None]

\* What get_states may fetch from a device that keeps what it was commanded
Faithful(states) ==
    IF widget = W_AEH
    THEN states.IO_TARGET_HEATING_LEVEL_STATE = hist.level
    ELSE hist.derogation # ""
         => /\ states.ST_DEROGATION_TYPE_STATE =
                   STATE_DEROGATION_FURTHER_NOTICE
            /\ states.ST_DEROGATION_HEATING_MODE_STATE = hist.derogation

\* update, the device faithful
faithful_update ==
    /\ \E states \in {v \in VendorStates(widget) : Faithful(v)} :
           update_reading(states)
    /\ hist' = HistNext
    /\ UNCHANGED <<entry, exe>>

\* The heater with a sensor: every handler
HeaterReadings == {Deg(19) - cold_tolerance, Deg(19) + hot_tolerance}

heater_sensor_changed ==
    /\ \E new_state \in {UnknownState} \cup
                        {NumState(n) : n \in HeaterReadings} :
           _async_temp_sensor_changed(new_state)
    /\ hist' = HistNext
    /\ UNCHANGED <<entry, exe>>

heater_set_hvac_mode ==
    /\ \E mode \in HvacModeArgs : set_hvac_mode(mode)
    /\ hist' = HistNext
    /\ UNCHANGED <<entry, exe>>

heater_set_temperature ==
    /\ \E temperature \in TemperatureArgs : set_temperature(temperature)
    /\ hist' = HistNext
    /\ UNCHANGED <<entry, exe>>

tracked_set_preset_mode ==
    /\ \E preset \in PresetArgs : set_preset_mode(preset)
    /\ hist' = HistNext
    /\ UNCHANGED <<entry, exe>>

InitHeater ==
    /\ widget = W_AEH
    /\ temp_sensor_entity_id = "sensor.temperature"
    /\ active_states \in VendorStates(widget)
    /\ Constructed
    /\ hist = [NoHist EXCEPT
                   !.level = active_states.IO_TARGET_HEATING_LEVEL_STATE]
    /\ entry = NotSetUp
    /\ exe = Idle

NextHeater ==
    \/ faithful_update
    \/ heater_sensor_changed
    \/ heater_set_hvac_mode
    \/ heater_set_temperature
    \/ tracked_set_preset_mode

SpecHeater == InitHeater /\ [][NextHeater]_vars

\* The thermostat: polls and preset changes
InitOverride ==
    /\ widget = W_ST
    /\ temp_sensor_entity_id = ""
    /\ active_states \in VendorStates(widget)
    /\ Constructed
    /\ Untracked

NextOverride ==
    \/ faithful_update
    \/ tracked_set_preset_mode

SpecOverride == InitOverride /\ [][NextOverride]_vars

----------------------------------------------------------------------------
(* The config entry: async_setup_entry, update_listener, async_unload_entry *)
(* The handlers are coroutines; between the awaits modelled here another   *)
(* handler may run.                                                         *)

MaxTimers == 4
MaxPending == 2

\* What client.login, get_devices, get_scenarios or get_gateways raises, by
\* the classes the handlers of async_setup_entry name; "" when none raises
VendorExceptions ==
    {"BadCredentialsException", "TooManyRequestsException", "TimeoutError",
     "ClientError", "ServerDisconnectedError", "MaintenanceException",
     "Exception"}

\* Mutant: server maintenance taken as fatal
SetupOutcome_maintenance_fatal(exception) ==
    IF exception = "" THEN "True"
    ELSE IF exception \in {"TooManyRequestsException", "TimeoutError",
                           "ClientError", "ServerDisconnectedError"}
    THEN "ConfigEntryNotReady"
    ELSE "False"

\* What async_setup_entry returns ("True", "False") or raises
SetupOutcome(exception) ==
    IF exception = "" THEN "True"
    ELSE IF exception = "BadCredentialsException" THEN "False"
    ELSE IF exception = "TooManyRequestsException" THEN "ConfigEntryNotReady"
    ELSE IF exception \in {"TimeoutError", "ClientError",
                           "ServerDisconnectedError"}
    THEN "ConfigEntryNotReady"
    ELSE IF exception = "MaintenanceException" THEN "ConfigEntryNotReady"
    ELSE "False"

\* The platforms with entities: scenes always, climate when the hub has a
\* climate device
PlatformSets == {{"scene"}, {"scene", "climate"}}

SERVICE_REFRESH_STATES == "refresh_states"
SERVICE_EXECUTE_COMMAND == "execute_command"
SERVICE_GET_EXECUTION_HISTORY == "get_execution_history"

\* entry.options: each interval 0 (not set) or a number of seconds
OptionValues ==
    [update_interval : {0, 30}, refresh_state_interval : {0, 600}]

\* async_track_time_interval: a new timer, active until cancelled
Tracked(en) ==
    [en EXCEPT !.made = @ + 1, !.timers = @ \cup {en.made + 1}]

\* Calling the function async_track_time_interval returned
Cancelled(en, timer) == [en EXCEPT !.timers = @ \ {timer}]

async_setup_entry(exception, platforms) ==
    /\ entry.state = "not_loaded"
    /\ entry.made < MaxTimers
    /\ UNCHANGED <<entity, exe>>
    /\ LET called == [entry EXCEPT !.domain = TRUE,
                                   !.op = "async_setup_entry",
                                   !.exception = exception,
                                   !.result = SetupOutcome(exception)]
           timed == Tracked(called)
       IN entry' =
              IF exception # ""
              THEN called
              ELSE [timed EXCEPT
                        !.forwarded = platforms,
                        !.services = @ \cup {SERVICE_REFRESH_STATES,
                                             SERVICE_EXECUTE_COMMAND,
                                             SERVICE_GET_EXECUTION_HISTORY},
                        !.data = TRUE,
                        !.task_refresh_state = timed.made,
                        !.update_listeners = TRUE,
                        !.state = "loaded"]

\* update_listener from "if entry.options[CONF_REFRESH_STATE_INTERVAL]" on
RefreshRescheduled(en) ==
    IF en.options.refresh_state_interval = 0 THEN en
    ELSE IF ~en.data THEN [en EXCEPT !.result = "KeyError"]
    ELSE [Tracked(Cancelled(en, en.task_refresh_state)) EXCEPT
              !.task_refresh_state = en.made + 1]

\* The host updates the options and starts update_listener, which runs to
\* its await of coordinator.async_refresh() or, without one, to its end
update_listener(options) ==
    /\ entry.update_listeners
    /\ entry.made < MaxTimers
    /\ UNCHANGED <<entity, exe>>
    /\ LET called == [entry EXCEPT !.options = options,
                                   !.op = "update_listener",
                                   !.exception = "",
                                   !.result = ""]
       IN IF options.update_interval # 0
          THEN /\ entry.pending < MaxPending
               /\ entry' = [called EXCEPT !.pending = @ + 1]
          ELSE entry' = RefreshRescheduled(called)

\* update_listener after coordinator.async_refresh() has returned
update_listener_refreshed ==
    /\ entry.pending > 0
    /\ entry.made < MaxTimers
    /\ UNCHANGED <<entity, exe>>
    /\ entry' = RefreshRescheduled([entry EXCEPT !.pending = @ - 1,
                                                 !.op = "update_listener",
                                                 !.exception = "",
                                                 !.result = ""])

\* async_unload_entry up to its await of the platform unloads
async_unload_entry ==
    /\ entry.state = "loaded"
    /\ UNCHANGED <<entity, exe>>
    /\ entry' = [Cancelled(entry, entry.task_refresh_state) EXCEPT
                     !.update_listeners = FALSE,
                     !.state = "unloading",
                     !.op = "async_unload_entry",
                     !.exception = "",
                     !.result = ""]

\* async_unload_entry after the platform unloads.  update_listener is
\* removed a second time when they all succeeded; whether the host's
\* remover tolerates that is the host's affair.
async_unload_entry_gathered(unload_ok, tolerated) ==
    /\ entry.state = "unloading"
    /\ UNCHANGED <<entity, exe>>
    /\ LET called == [entry EXCEPT !.op = "async_unload_entry"]
       IN entry' =
              IF ~unload_ok
              THEN [called EXCEPT !.state = "failed_unload",
                                  !.result = "False"]
              ELSE IF ~tolerated
              THEN [called EXCEPT !.state = "failed_unload",
                                  !.forwarded = {},
                                  !.result = "ValueError"]
              ELSE [called EXCEPT !.state = "not_loaded",
                                  !.forwarded = {},
                                  !.data = FALSE,
                                  !.task_refresh_state = 0,
                                  !.result = "True"]

\* One entity, which no handler of the entry touches
InitEntry ==
    /\ widget = W_ST
    /\ temp_sensor_entity_id = ""
    /\ active_states = CHOOSE states \in VendorStates(W_ST) : TRUE
    /\ Constructed
    /\ Untracked

NextEntry ==
    \/ \E exception \in VendorExceptions \cup {""}, platforms \in PlatformSets :
           async_setup_entry(exception, platforms)
    \/ \E options \in OptionValues : update_listener(options)
    \/ update_listener_refreshed
    \/ async_unload_entry
    \/ \E unload_ok \in BOOLEAN, tolerated \in BOOLEAN :
           async_unload_entry_gathered(unload_ok, tolerated)

SpecEntry == InitEntry /\ [][NextEntry]_vars

----------------------------------------------------------------------------
(* Command emission: _apply_action, step by step.  The handlers of an      *)
(* entity run one at a time.  The handler's assignments are taken at its   *)
(* call; its commands are then issued one after the other.                 *)

MaxExecutions == 2

\* The ids apply_action may return; one is free again once the vendor has
\* dropped its execution
ExecIds == 1..MaxExecutions

\* Mutant: the wait never entered
Executing_never(exec_id, executions) == FALSE

\* Mutant: the wait never left
Executing_always(exec_id, executions) == TRUE

\* The test of the while loop of _apply_action
Executing(exec_id, executions) == exec_id \in executions

\* A setter or the sensor callback is called; none is in progress
handler_called ==
    /\ exe.pc = "idle"
    /\ \/ \E mode \in HvacModeArgs : set_hvac_mode(mode)
       \/ \E temperature \in TemperatureArgs : set_temperature(temperature)
       \/ \E preset \in PresetArgs : set_preset_mode(preset)
       \/ \E new_state \in SensorStates :
              _async_temp_sensor_changed(new_state)
    /\ exe' = [exe EXCEPT !.pc = IF cmds' = << >> THEN "idle"
                                 ELSE "apply_action",
                          !.todo = cmds',
                          !.issued = 0]
    /\ UNCHANGED <<hist, entry>>

\* exec_id = self.apply_action(cmd_name, *args): the vendor starts an
\* execution and returns its id
apply_action ==
    /\ exe.pc = "apply_action"
    /\ \E id \in ExecIds \ exe.current_executions :
           exe' = [exe EXCEPT !.pc = "executing",
                              !.todo = Tail(@),
                              !.issued = @ + 1,
                              !.exec_id = id,
                              !.current_executions = @ \cup {id}]
    /\ UNCHANGED <<entity, entry>>

\* The while loop finds exec_id gone from get_current_executions(): the
\* handler goes on to its next command, or returns
executed ==
    /\ exe.pc = "executing"
    /\ ~Executing(exe.exec_id, exe.current_executions)
    /\ exe' = [exe EXCEPT !.pc = IF exe.todo = << >> THEN "idle"
                                 ELSE "apply_action",
                          !.exec_id = 0]
    /\ UNCHANGED <<entity, entry>>

\* The vendor finishes an execution
execution_finished ==
    /\ \E id \in exe.current_executions :
           exe' = [exe EXCEPT !.current_executions = @ \ {id}]
    /\ UNCHANGED <<entity, entry>>

\* One device of each family, the heater with a sensor
InitExec ==
    /\ widget \in SUPPORTED_CLIMATE_DEVICES
    /\ temp_sensor_entity_id =
           IF widget = W_AEH THEN "sensor.temperature" ELSE ""
    /\ active_states = CHOOSE states \in VendorStates(widget) : TRUE
    /\ Constructed
    /\ Untracked

NextExec ==
    \/ handler_called
    \/ apply_action
    \/ executed
    \/ execution_finished

SpecExec == InitExec /\ [][NextExec]_vars

\* The vendor finishes every execution it has started, and a handler in
\* progress takes its next step
SpecExecFair ==
    /\ SpecExec
    /\ WF_vars(execution_finished)
    /\ WF_vars(apply_action)
    /\ WF_vars(executed)

----------------------------------------------------------------------------
(* Properties *)

\* The numbers carried by a sequence of commands
Carried(commands) ==
    UNION {{commands[i].args[j].num : j \in DOMAIN commands[i].args} :
               i \in DOMAIN commands} \ {None}

\* The last handler was the setter name, called with an argument
Called(name) == op.name = name

\* C1: for either family, set_preset_mode(p) with p not in preset_modes
\* emits no vendor command, leaves preset_mode, hvac_mode, target_temperature
\* and the stored target temperature unchanged, and raises no error.
C1_UnavailablePresetIsNoOp ==
    [][(op'.name = "set_preset_mode" /\ op'.str \notin preset_modes(widget))
       => /\ cmds' = << >>
          /\ raised' = ""
          /\ UNCHANGED <<preset_mode, hvac_mode, target_temp,
                         stored_target_temp>>]_vars

C1_Witness ==
    /\ Called("set_preset_mode")
    /\ widget = W_ST
    /\ op.str = PRESET_ECO
    /\ preset_mode = PRESET_AWAY

\* C2: for the thermostat, set_temperature with a value above 26 leaves the
\* cached target at 26 and 26 is the only temperature its commands carry;
\* a value of at most 26 is cached and carried unchanged.
C2_ClampedAtTop ==
    (widget = W_ST /\ Called("set_temperature") /\ op.num # None)
    => LET written == IF op.num > 26 * Scale THEN 26 * Scale ELSE op.num
       IN /\ target_temp = written
          /\ Carried(cmds) = {written}
          /\ \E i \in DOMAIN cmds :
                 /\ cmds[i].name = COMMAND_SET_DEROGATION
                 /\ cmds[i].args[1].num = written
          /\ \E i \in DOMAIN cmds :
                 /\ cmds[i].name = COMMAND_SET_MODE_TEMPERATURE
                 /\ cmds[i].args[2].num = written

C2_Witness ==
    /\ widget = W_ST
    /\ Called("set_temperature")
    /\ op.num = 27 * Scale
    /\ target_temp = 26 * Scale

\* The heating-level commands of the heater
HeaterOff == <<SetHeatingLevel(PRESET_NONE)>>
IsHeaterOn(commands) ==
    /\ Len(commands) = 1
    /\ commands[1].name = COMMAND_SET_HEATING_LEVEL
    /\ commands[1].args[1].str \in
           {PRESET_FROST_PROTECTION, PRESET_ECO, PRESET_COMFORT}

\* C3, as stated: every evaluation of the heater's control step emits the
\* heating-level 'off' command when current - target >= 0.3, a heating-level
\* command for a heating preset when target - current >= 0.3, and no command
\* strictly inside the band.
C3_Original ==
    ctl.ran
    => /\ ctl.current - ctl.target >= 3 => ctl.cmds = HeaterOff
       /\ ctl.target - ctl.current >= 3 => IsHeaterOn(ctl.cmds)
       /\ (ctl.current - ctl.target < 3 /\ ctl.target - ctl.current < 3)
              => ctl.cmds = << >>

\* C3, amended: when the cached current temperature is 0 the control step
\* emits no command; otherwise it emits the 'off' command when
\* current - target >= 0.3 unless the cached preset is already none (then no
\* command), a heating-level command for a heating preset when
\* target - current >= 0.3, and no command strictly inside the band.
C3_Hysteresis ==
    ctl.ran
    => IF ctl.current = 0
       THEN ctl.cmds = << >>
       ELSE /\ ctl.current - ctl.target >= 3
                 => ctl.cmds = IF ctl.preset = PRESET_NONE
                               THEN << >> ELSE HeaterOff
            /\ ctl.target - ctl.current >= 3 => IsHeaterOn(ctl.cmds)
            /\ (ctl.current - ctl.target < 3 /\ ctl.target - ctl.current < 3)
                   => ctl.cmds = << >>

C3_Witness ==
    /\ ctl.ran
    /\ ctl.current - ctl.target = 3
    /\ ctl.preset = PRESET_ECO
    /\ ctl.cmds = HeaterOff

\* C4: for the thermostat, set_preset_mode(none) from another preset and
\* set_hvac_mode(heat) from another mode set the cached target temperature
\* to the stored target temperature, emit setDerogation carrying that value,
\* and leave the stored value unchanged.
C4_ExitRestoresStored ==
    [][(/\ widget = W_ST
        /\ \/ /\ op'.name = "set_preset_mode"
              /\ op'.str = PRESET_NONE
              /\ preset_mode # PRESET_NONE
           \/ /\ op'.name = "set_hvac_mode"
              /\ op'.str = HVAC_MODE_HEAT
              /\ hvac_mode # HVAC_MODE_HEAT)
       => /\ target_temp' = stored_target_temp
          /\ stored_target_temp' = stored_target_temp
          /\ \E i \in DOMAIN cmds' :
                 /\ cmds'[i].name = COMMAND_SET_DEROGATION
                 /\ cmds'[i].args[1].num = stored_target_temp]_vars

C4_Witness ==
    /\ widget = W_ST
    /\ Called("set_preset_mode")
    /\ op.str = PRESET_NONE
    /\ cmds # << >>
    /\ target_temp = 15 * Scale
    /\ active_states.CORE_DEROGATED_TARGET_TEMPERATURE_STATE # target_temp
    /\ active_states.CORE_TARGET_TEMPERATURE_STATE # target_temp

C6_DisplayedInFamilyLists ==
    /\ hvac_mode \in hvac_modes(widget)
    /\ preset_mode \in preset_modes(widget)

C6_Witness ==
    /\ widget = W_AEH
    /\ ctl.ran
    /\ ctl.preset = PRESET_NONE
    /\ preset_mode = PRESET_COMFORT
    /\ hvac_mode = HVAC_MODE_OFF

\* C7, as stated: for the thermostat, after set_temperature with any value
\* the cached target and every temperature its commands carry lie within
\* [15, 26].
C7_Original ==
    (widget = W_ST /\ Called("set_temperature") /\ op.num # None)
    => \A t \in {target_temp} \cup Carried(cmds) :
           15 * Scale <= t /\ t <= 26 * Scale

\* C8: for the thermostat, set_temperature with a value below 15 emits
\* setDerogation(freezeMode, further_notice) before its temperature-carrying
\* commands; a value of 15 or more emits no such command.
FrostCommand ==
    Cmd("setDerogation", <<S("freezeMode"), S("further_notice")>>)

C8_FrostProtectionFirst ==
    (widget = W_ST /\ Called("set_temperature") /\ op.num # None)
    => IF op.num < 15 * Scale
       THEN /\ cmds[1] = FrostCommand
            /\ \A i \in DOMAIN cmds :
                   Carried(<<cmds[i]>>) # {} => i > 1
            /\ \E i \in DOMAIN cmds : Carried(<<cmds[i]>>) # {}
       ELSE \A i \in DOMAIN cmds : cmds[i] # FrostCommand

C8_Witness ==
    /\ widget = W_ST
    /\ Called("set_temperature")
    /\ op.num = 14 * Scale
    /\ Len(cmds) = 4
    /\ cmds[1] = FrostCommand

\* C9, as stated: for either family, when set_preset_mode(p) is called with p
\* in preset_modes, the cached preset_mode equals p on return.
C9_Original ==
    (Called("set_preset_mode") /\ op.str \in preset_modes(widget))
    => preset_mode = op.str

\* C9, amended: on return the cached preset_mode equals p, except on the
\* heater when p is none, differs from the cached preset, and the control
\* step ending the call finds the room too cold (current temperature not 0
\* and target - current >= 0.3): turn_on then leaves comfort cached.
C9_PresetCachedOnWrite ==
    (Called("set_preset_mode") /\ op.str \in preset_modes(widget))
    => preset_mode =
           IF /\ widget = W_AEH
              /\ op.str = PRESET_NONE
              /\ ctl.ran
              /\ ctl.current # 0
              /\ ctl.target - ctl.current >= 3
           THEN PRESET_COMFORT
           ELSE op.str

C9_Witness ==
    /\ widget = W_AEH
    /\ Called("set_preset_mode")
    /\ op.str = PRESET_NONE
    /\ preset_mode = PRESET_COMFORT

\* C10, as stated: for either family, when set_hvac_mode(m) is called with m
\* in hvac_modes and m different from the current mode, the cached hvac_mode
\* equals m on return.
C10_Original ==
    [][(/\ op'.name = "set_hvac_mode"
        /\ op'.str \in hvac_modes(widget)
        /\ op'.str # hvac_mode)
       => hvac_mode' = op'.str]_vars

RefreshPositions(commands) ==
    {i \in DOMAIN commands : commands[i].name = "refreshState"}

C19_RefreshOnceAndLast ==
    [][(/\ widget = W_ST
        /\ \/ op'.name = "set_hvac_mode" /\ op'.str # hvac_mode
           \/ op'.name = "set_temperature" /\ op'.num # None
           \/ /\ op'.name = "set_preset_mode"
              /\ op'.str \in preset_modes(widget)
              /\ op'.str # preset_mode)
       => /\ cmds' # << >>
          /\ RefreshPositions(cmds') = {Len(cmds')}]_vars

\* set_temperature below 15 degrees: four commands, the refresh the fourth
C19_Witness ==
    /\ widget = W_ST
    /\ Called("set_temperature")
    /\ Len(cmds) = 4
    /\ RefreshPositions(cmds) = {4}

\* C12: a sensor value that is no number is discarded.  A sensor-change
\* callback delivering such a value, and a poll reading it, leave
\* current_temperature as it was and raise nothing; the callback changes no
\* other cached field on the thermostat, and on the heater only what the
\* control step it then runs on the retained temperature decides.
C12_UnparsableReadDiscarded ==
    [][/\ (/\ op'.name = "_async_temp_sensor_changed"
           /\ sensor' = TextState
           /\ sensor # TextState)
          => /\ current_temperature' = current_temperature
             /\ raised' = ""
             /\ UNCHANGED <<hvac_mode, target_temp, stored_target_temp,
                            current_hvac_modes>>
             /\ preset_mode' =
                    IF widget = W_AEH
                    THEN _control_heating(preset_mode, target_temp,
                                          current_temperature).preset
                    ELSE preset_mode
       /\ (op'.name = "update" /\ sensor = TextState)
          => /\ current_temperature' = current_temperature
             /\ raised' = ""
             /\ stored_target_temp' = stored_target_temp]_vars

C12_Witness ==
    /\ Called("_async_temp_sensor_changed")
    /\ sensor = TextState
    /\ current_temperature = Deg(19) - cold_tolerance
    /\ raised = ""

\* The control step of the last handler found it too cold
TooColdEvaluated ==
    /\ widget = W_AEH
    /\ ctl.ran
    /\ ctl.current # 0
    /\ too_cold(ctl.target, ctl.current)

\* C13 (as stated): once the user has selected a preset, a too-cold
\* evaluation commands the heating level of that preset, whatever turn-offs,
\* polls and sensor changes came between; comfort stands in only for a
\* selection of none.
C13_Original ==
    (TooColdEvaluated /\ hist.user_preset # "")
    => /\ ctl.cmds # << >>
       /\ ctl.cmds[Len(ctl.cmds)] =
              SetHeatingLevel(IF hist.user_preset = PRESET_NONE
                              THEN PRESET_COMFORT
                              ELSE hist.user_preset)

\* The heating-level commands that turn the heater on
HeatingCommands ==
    {SetHeatingLevel(p) : p \in {PRESET_FREEZE, PRESET_ECO, PRESET_COMFORT}}

\* C18 (as stated): from set_hvac_mode(off) on the heater until
\* set_hvac_mode(heat), no handler issues a heating-level command for a
\* heating preset, neither that call itself nor a later control step.
C18_Original ==
    (widget = W_AEH /\ hist.off_requested)
    => \A i \in DOMAIN cmds : cmds[i] \notin HeatingCommands

\* C14 (as stated): set_preset_mode(none), after an override preset was
\* entered from none and only polls and switches between override presets
\* followed, restores the target temperature cached before the first
\* override.
C14_Original ==
    [][(/\ widget = W_ST
        /\ hist.overriding
        /\ op'.name = "set_preset_mode"
        /\ op'.str = PRESET_NONE
        /\ preset_mode # PRESET_NONE)
       => target_temp' = hist.first_target]_vars

\* C15: async_setup_entry classifies what the vendor client raises, and a
\* failing setup leaves nothing behind.  Bad credentials and an unexpected
\* exception make it return False; too many requests, a timeout or a
\* connection error, and server maintenance make it raise
\* ConfigEntryNotReady.  On each of these paths no data is stored for the
\* entry, no platform is forwarded, and no service or timer is registered.
C15_SetupFailureClassified ==
    [][(entry'.op = "async_setup_entry" /\ entry'.exception # "")
       => /\ entry'.exception \in {"BadCredentialsException", "Exception"}
             => entry'.result = "False"
          /\ entry'.exception \in {"TooManyRequestsException", "TimeoutError",
                                   "ClientError", "ServerDisconnectedError",
                                   "MaintenanceException"}
             => entry'.result = "ConfigEntryNotReady"
          /\ entry'.state = "not_loaded"
          /\ ~entry'.data
          /\ entry'.forwarded = {}
          /\ ~entry'.update_listeners
          /\ entry'.services = entry.services
          /\ entry'.timers = entry.timers
          /\ entry'.made = entry.made]_vars

C15_Witness ==
    /\ entry.op = "async_setup_entry"
    /\ entry.exception = "MaintenanceException"
    /\ entry.result = "ConfigEntryNotReady"
    /\ entry.services = {}
    /\ entry.timers = {}
    /\ ~entry.data

\* C17 (as stated): at most one refresh timer of the entry is active at any
\* time; while the entry is loaded it is the one on record; after unload
\* none is active.
C17_Original ==
    /\ Cardinality(entry.timers) <= 1
    /\ entry.state = "loaded" => entry.timers = {entry.task_refresh_state}
    /\ entry.state \in {"not_loaded", "failed_unload"} => entry.timers = {}

\* C16: command emission is synchronous.  A handler issues its next command
\* only when the execution of the previous one has left the vendor's
\* current executions, so at most one execution of the entity is in flight.
C16_OneExecutionInFlight ==
    /\ Cardinality(exe.current_executions) <= 1
    /\ exe.pc = "apply_action" => exe.current_executions = {}
    /\ exe.pc = "executing" => exe.current_executions \subseteq {exe.exec_id}

C16_Witness ==
    /\ exe.pc = "executing"
    /\ exe.issued = 2
    /\ exe.current_executions = {exe.exec_id}
    /\ exe.todo # << >>

\* C20: given that the vendor finishes every execution, a handler that was
\* called returns, having issued the commands it had to issue and no more;
\* and while the execution it waits for stays among the current executions
\* it does nothing but wait.
C20_SetterReturns ==
    /\ (exe.pc # "idle") ~> (exe.pc = "idle" /\ exe.issued = Len(cmds))
    /\ [][(exe.pc = "executing" /\ exe.exec_id \in exe'.current_executions)
          => (exe'.pc = "executing" /\ exe'.issued = exe.issued)]_vars

C20_Witness ==
    /\ exe.pc = "idle"
    /\ exe.issued = 4
    /\ Len(cmds) = 4
    /\ exe.current_executions = {}

\* C21: re-selecting the current value does nothing, for either family.
\* set_hvac_mode with the cached hvac_mode, set_preset_mode with the cached
\* preset_mode and set_temperature without a temperature emit no command
\* and leave hvac_mode, preset_mode, the target temperature and the stored
\* target temperature as they were.
C21_ReselectIsNoOp ==
    [][(\/ op'.name = "set_hvac_mode" /\ op'.str = hvac_mode
        \/ op'.name = "set_preset_mode" /\ op'.str = preset_mode
        \/ op'.name = "set_temperature" /\ op'.num = None)
       => /\ cmds' = << >>
          /\ ~ctl'.ran
          /\ UNCHANGED <<hvac_mode, preset_mode, target_temp,
                         stored_target_temp>>]_vars

\* On the thermostat a set_hvac_mode that acts always ends with a refresh,
\* so this state is reached only by re-selecting
C21_Witness ==
    /\ widget = W_ST
    /\ Called("set_hvac_mode")
    /\ op.str = hvac_mode
    /\ hvac_mode = HVAC_MODE_HEAT
    /\ cmds = << >>

\* C22: the heater's control loop is suspended while no temperature is
\* known.  When the cached current_temperature is 0, as at the start and
\* after the sensor reported 'unknown', a control step emits no command
\* whatever the target and the entity is not available; a control step
\* that finds it too hot while the cached preset is none emits no command
\* either.
C22_ControlSuspended ==
    /\ (ctl.ran /\ ctl.current = 0) => ctl.cmds = << >>
    /\ current_temperature = 0 => ~available
    /\ (temp_sensor_entity_id # "" /\ sensor = UnknownState)
       => current_temperature = 0
    /\ (/\ ctl.ran
        /\ ctl.current # 0
        /\ too_hot(ctl.target, ctl.current)
        /\ ctl.preset = PRESET_NONE)
       => ctl.cmds = << >>

C22_Witness ==
    /\ widget = W_AEH
    /\ Called("set_temperature")
    /\ sensor = UnknownState
    /\ ctl.ran
    /\ ctl.current = 0
    /\ ctl.target = Deg(26)
    /\ ctl.preset = PRESET_ECO
    /\ cmds = << >>
    /\ ~available

C24_Original ==
    (entry.op = "async_unload_entry" /\ entry.state # "unloading")
    => IF entry.result = "False"
       THEN /\ entry.data
            /\ entry.update_listeners
            /\ entry.task_refresh_state \in entry.timers
       ELSE /\ entry.result = "True"
            /\ ~entry.data

====
